---- MODULE Spec2Model ----
(***************************************************************************)
(* The episode driver of minihack/scripts/play.py: play() driving one of   *)
(* two environment adapters (Structured: a gymnasium environment, Raw: a   *)
(* nethack.Nethack instance), get_action() with its scoped raw terminal    *)
(* mode, the running statistics, and the optional GIF frame recorder.      *)
(***************************************************************************)
EXTENDS Integers, Sequences, FiniteSets, TLC

(* ------------------------------ bounds -------------------------------- *)
\* largest configured episode count (--ngames)
MaxGames == 2
\* largest configured per-episode step budget (--max-steps)
MaxSteps == 2
\* a Structured episode is followed for at most this many steps past its budget
MaxOverrun == 1
\* a single get_action call is followed for at most this many rejected keys
MaxRetry == 2

(* --------------------------- program constants ------------------------ *)
\* nethack.C("c"): the control-C key code
CtrlC == 3
\* Python's None, and a value that is not None
None == <<>>
Some(x) == <<x>>

\* _ACTIONS: MiscAction.MORE, then CompassDirection, then CompassDirectionLonger
\* (the key codes of "\r", "kljhunby" and "KLJHUNBY")
_ACTIONS ==
    <<13, 107, 108, 106, 104, 117, 110, 98, 121,
      75, 76, 74, 72, 85, 78, 66, 89>>

\* env.unwrapped.actions of the Structured environment: the action list the
\* environment declares (the four cardinal directions "k", "l", "j", "h")
EnvActions == <<107, 108, 106, 104>>

\* the bytes a scripted terminal delivers: control-C, "h" (legal on both
\* backends), "\r" (in _ACTIONS, not in EnvActions), "x" (in neither)
InputBytes == {CtrlC, 104, 13, 120}

\* the rewards the Structured adapter returns
Rewards == {-1, 2}

\* an episode's wall-clock duration (timeit.default_timer differences), in
\* clock units
TimeDeltas == {1, 2}

\* the file system's timestamp resolution: how many consecutive frame writes
\* fall into one modification-time tick
FsResolutions == {1, 2}

\* the terminal settings a run can start from, and the one tty.setraw sets
TermModes == {"cooked", "cbreak"}
RawMode == "raw"

(* ------------------------- exact arithmetic --------------------------- *)
\* Rationals <<numerator, denominator>> in lowest terms, denominator > 0.
Abs(n) == IF n < 0 THEN -n ELSE n

RECURSIVE GCD(_, _)
GCD(a, b) == IF b = 0 THEN a ELSE GCD(b, a % b)

Norm(q) ==
    LET g == GCD(Abs(q[1]), q[2])
    IN  IF q[1] = 0 THEN <<0, 1>> ELSE <<q[1] \div g, q[2] \div g>>

Rat(n) == <<n, 1>>
RSub(p, q) == Norm(<<p[1] * q[2] - q[1] * p[2], p[2] * q[2]>>)
RAdd(p, q) == Norm(<<p[1] * q[2] + q[1] * p[2], p[2] * q[2]>>)
\* p / n for an integer n > 0
RDiv(p, n) == Norm(<<p[1], p[2] * n>>)

(* ------------------------- sequence helpers --------------------------- *)
SeqToSet(s) == {s[i] : i \in 1 .. Len(s)}

\* tuple.index(x): the 0-based position of the first element equal to x;
\* raises ValueError when there is none (HasIndex is then FALSE)
HasIndex(s, x) == x \in SeqToSet(s)
Index(s, x) ==
    (CHOOSE i \in 1 .. Len(s) : s[i] = x /\ \A j \in 1 .. (i - 1) : s[j] # x) - 1

Reverse(s) == [i \in 1 .. Len(s) |-> s[Len(s) + 1 - i]]

\* list.sort(key=...): a stable insertion sort of records by their mtime field
RECURSIVE InsertByMtime(_, _)
InsertByMtime(sorted, f) ==
    IF sorted = <<>> THEN <<f>>
    ELSE IF f.mtime < Head(sorted).mtime THEN <<f>> \o sorted
    ELSE <<Head(sorted)>> \o InsertByMtime(Tail(sorted), f)

RECURSIVE SortByMtime(_)
SortByMtime(s) ==
    IF s = <<>> THEN <<>>
    ELSE InsertByMtime(SortByMtime(SubSeq(s, 1, Len(s) - 1)), s[Len(s)])

(* ------------------------------- state -------------------------------- *)
VARIABLES
    flags,        \* the parsed configuration play() is called with
    pil_installed,\* whether "import PIL.Image" succeeds
    pc,           \* the control point of play() / get_action()
    error,        \* the exception that ended the run, or None
    env,          \* the adapter: "none", "open" or "closed"
    env_seeded,   \* number of env.unwrapped.seed calls the adapter received
    env_resets,   \* number of env.reset calls the adapter received
    env_steps,    \* number of env.step calls since the adapter's last reset
    obs,          \* play's obs: <<reset number, step number>> it was produced at
    steps, episodes, reward, action, done,
    mean_sps, mean_reward,
    tmpdir,       \* the temporary frame store: "none", "exists" or "removed"
    frames,       \* the png files of tmpdir, in creation order
    fs_res,       \* frame writes per modification-time tick of the file system
    gif,          \* the artifact at gif_path: None or Some(sequence of frames)
    termios,      \* the controlling terminal's current settings
    tt,           \* no_echo's saved settings
    ch,           \* get_action's last byte read
    corrections,  \* corrective messages printed by the current get_action call
    illegal_read, \* bytes read by the current call that are no legal action
    out,          \* what the last step printed
    reports,      \* number of end-of-episode reports printed
    reward_sum,   \* naive sum of the rewards of the episode last stepped
    step_done,    \* the done flag env.step returned last
    nsteps,       \* number of env.step calls of the whole run
    sps_sum,      \* sum of the steps-per-second values of the completed episodes
    shutdown,     \* the shutdown steps performed so far, in order
    termios0      \* the terminal settings before the run

vars ==
    <<flags, pil_installed, pc, error, env, env_seeded, env_resets, env_steps,
      obs, steps, episodes, reward, action, done, mean_sps, mean_reward,
      tmpdir, frames, fs_res, gif, termios, tt, ch, corrections, illegal_read,
      out, reports, reward_sum, step_done, nsteps, sps_sum, shutdown,
      termios0>>

\* the variables of the adapter, of the recorder and of the terminal
envVars == <<env, env_seeded, env_resets, env_steps>>
gifVars == <<tmpdir, frames, fs_res, gif>>
ttyVars == <<termios, tt, ch, corrections, illegal_read>>
statVars ==
    <<mean_sps, mean_reward, reports, reward_sum, step_done, nsteps, sps_sum>>

is_raw_env == flags.env = "raw"

\* the local name PIL is bound only by the import on the Structured branch
PILBound == ~is_raw_env /\ flags.save_gif

\* the legal actions of a backend: what random mode draws from
LegalKeys == IF is_raw_env THEN SeqToSet(_ACTIONS) ELSE SeqToSet(EnvActions)

NoOut == [kind |-> "none"]

\* every configuration within the bounds
Flags ==
    [env : {"raw", "MiniHack-Room-Random-5x5-v0"},
     mode : {"human", "random"},
     ngames : 1 .. MaxGames,
     max_steps : 1 .. MaxSteps,
     seeds : {None, Some(7)},
     no_render : BOOLEAN,
     save_gif : BOOLEAN]

\* the state when play() is called, for configurations F, terminal settings
\* T, file system resolutions R and PIL installed or not (P)
InitOf(F, T, R, P) ==
    /\ flags \in F
    /\ pil_installed \in P
    /\ fs_res \in R
    /\ termios0 \in T
    /\ termios = termios0
    /\ tt = termios0
    /\ pc = "make"
    /\ error = None
    /\ env = "none"
    /\ env_seeded = 0
    /\ env_resets = 0
    /\ env_steps = 0
    /\ obs = <<0, 0>>
    /\ steps = 0
    /\ episodes = 0
    /\ reward = 0
    /\ action = None
    /\ done = FALSE
    /\ mean_sps = Rat(0)
    /\ mean_reward = Rat(0)
    /\ tmpdir = "none"
    /\ frames = <<>>
    /\ gif = None
    /\ ch = 0
    /\ corrections = 0
    /\ illegal_read = 0
    /\ out = NoOut
    /\ reports = 0
    /\ reward_sum = 0
    /\ step_done = FALSE
    /\ nsteps = 0
    /\ sps_sum = Rat(0)
    /\ shutdown = <<>>

\* an exception leaves play(): nothing after the raising statement runs
Raise(e) ==
    /\ pc' = "error"
    /\ error' = Some(e)

(* --------------------------- play(): set-up ---------------------------- *)
\* a variant that seeds whenever an adapter is built
SeedCallsAlways(raw, seeds) == 1

\* lines 121-122: the number of seed calls after gym.make
SeedCalls(raw, seeds) == IF ~raw /\ seeds # None THEN 1 ELSE 0

\* lines 91-124: build the adapter
MakeEnv ==
    /\ pc = "make"
    /\ IF ~is_raw_env /\ flags.save_gif /\ ~pil_installed
       THEN /\ Raise("ModuleNotFoundError")
            /\ out' = NoOut
            /\ UNCHANGED envVars
       ELSE /\ pc' = "reset"
            /\ env' = "open"
            /\ env_seeded' = env_seeded + SeedCalls(is_raw_env, flags.seeds)
            /\ out' = IF ~is_raw_env /\ ~flags.no_render
                      THEN [kind |-> "actions"] ELSE NoOut
            /\ UNCHANGED <<error, env_resets, env_steps>>
    /\ UNCHANGED <<flags, pil_installed, obs, steps, episodes, reward, action,
                   done, gifVars, ttyVars, statVars, shutdown, termios0>>

\* lines 126-141: the first reset, the locals, the temporary directory
FirstReset ==
    /\ pc = "reset"
    /\ env_resets' = env_resets + 1
    /\ env_steps' = 0
    /\ obs' = <<env_resets + 1, 0>>
    /\ steps' = 0
    /\ episodes' = 0
    /\ reward' = 0
    /\ action' = None
    /\ mean_sps' = Rat(0)
    /\ mean_reward' = Rat(0)
    /\ tmpdir' = IF flags.save_gif THEN "exists" ELSE tmpdir
    /\ pc' = "render"
    /\ out' = NoOut
    /\ UNCHANGED <<flags, pil_installed, error, env, env_seeded, done, frames,
                   fs_res, gif, ttyVars, reports, reward_sum, step_done, nsteps,
                   sps_sum, shutdown,
                   termios0>>

(* ------------------------- play(): the loop ---------------------------- *)
\* a variant that displays whatever the flag says
RendersAlways(no_render) == TRUE

\* line 144: whether the iteration displays anything
Renders(no_render) == ~no_render

\* lines 144-157: show the previous reward/action and the observation
Render ==
    /\ pc = "render"
    /\ out' = IF ~Renders(flags.no_render) THEN NoOut
              ELSE IF is_raw_env
              THEN [kind |-> "render", action |-> action, obs |-> obs]
              ELSE [kind |-> "render", action |-> action, reward |-> reward]
    /\ pc' = "capture"
    /\ UNCHANGED <<flags, pil_installed, error, envVars, obs, steps, episodes,
                   reward, action, done, gifVars, ttyVars, statVars, shutdown,
                   termios0>>

\* a variant with the capture inside the rendering branch
CapturesWhenRendering(save_gif, no_render) == save_gif /\ ~no_render

\* line 159: whether the iteration captures a frame
Captures(save_gif, no_render) == save_gif

\* a variant that names the file by the step alone
FrameNameStepOnly(e, s) == <<0, s>>

\* line 161: the file e_{episodes}_s_{steps}.png
FrameName(e, s) == <<e, s>>

\* line 161: obs_image.save(path) creates the file, or replaces the file
\* that already has this name
WriteFile(files, f) ==
    IF \E i \in 1 .. Len(files) : files[i].name = f.name
    THEN [i \in 1 .. Len(files) |->
            IF files[i].name = f.name THEN f ELSE files[i]]
    ELSE Append(files, f)

\* lines 159-161: save the observation as tmpdir/e_{episodes}_s_{steps}.png
Capture ==
    /\ pc = "capture"
    /\ IF ~Captures(flags.save_gif, flags.no_render)
       THEN /\ pc' = "act"
            /\ UNCHANGED <<error, frames>>
       ELSE IF ~PILBound
       THEN /\ Raise("UnboundLocalError")
            /\ UNCHANGED frames
       ELSE /\ frames' = WriteFile(frames,
                   [name |-> FrameName(episodes, steps),
                    episode |-> FrameName(episodes, steps)[1],
                    step |-> FrameName(episodes, steps)[2],
                    mtime |-> Len(frames) \div fs_res, image |-> obs])
            /\ pc' = "act"
            /\ UNCHANGED error
    /\ out' = NoOut
    /\ UNCHANGED <<flags, pil_installed, envVars, obs, steps, episodes, reward,
                   action, done, tmpdir, fs_res, gif, ttyVars, statVars, shutdown,
                   termios0>>

(* ----------------------------- no_echo() ------------------------------- *)
\* a variant without the finally clause: only the normal exit restores
NoEchoExitNoFinally(saved, current, raised) ==
    IF raised THEN current ELSE saved

\* lines 39-43: the finally clause restores the saved settings however the
\* body of the with statement is left
NoEchoExit(saved, current, raised) == saved

\* lines 38-40 (and 53-54): save the settings, set raw mode, block in os.read
NoEchoEnter ==
    /\ pc \in {"act", "retry"}
    /\ flags.mode = "human"
    /\ tt' = termios
    /\ termios' = RawMode
    /\ corrections' = IF pc = "act" THEN 0 ELSE corrections
    /\ illegal_read' = IF pc = "act" THEN 0 ELSE illegal_read
    /\ pc' = "reading"
    /\ out' = NoOut
    /\ UNCHANGED <<flags, pil_installed, error, envVars, obs, steps, episodes,
                   reward, action, done, gifVars, ch, statVars, shutdown,
                   termios0>>

\* line 55, then 42-43: os.read returns one byte and no_echo is left
ReadByte ==
    /\ pc = "reading"
    /\ \E b \in InputBytes :
         /\ (b # CtrlC /\ b \notin LegalKeys) => illegal_read < MaxRetry
         /\ ch' = b
         /\ illegal_read' =
              IF b # CtrlC /\ b \notin LegalKeys
              THEN illegal_read + 1 ELSE illegal_read
    /\ termios' = NoEchoExit(tt, termios, FALSE)
    /\ pc' = "dispatch"
    /\ out' = NoOut
    /\ UNCHANGED <<flags, pil_installed, error, envVars, obs, steps, episodes,
                   reward, action, done, gifVars, tt, corrections, statVars,
                   shutdown, termios0>>

\* line 55, then 42-43: os.read (or ord) raises, or the read is interrupted;
\* no_echo is left and the exception leaves get_action and play
ReadFail ==
    /\ pc = "reading"
    /\ \E e \in {"OSError", "KeyboardInterrupt"} : Raise(e)
    /\ termios' = NoEchoExit(tt, termios, TRUE)
    /\ out' = NoOut
    /\ UNCHANGED <<flags, pil_installed, envVars, obs, steps, episodes, reward,
                   action, done, gifVars, tt, ch, corrections, illegal_read,
                   statVars, shutdown, termios0>>

(* ---------------------------- get_action() ----------------------------- *)
\* lines 59-65: whether mapping the key raises ValueError
KeyRejected(raw, key) == ~raw /\ ~HasIndex(EnvActions, key)

\* a variant that returns the 1-based position in the action list
KeyActionOneBased(raw, key) == IF raw THEN key ELSE Index(EnvActions, key) + 1

\* lines 60-63: the action of an accepted key
KeyAction(raw, key) == IF raw THEN key ELSE Index(EnvActions, key)

\* a variant that takes the abort for the end of an episode
AfterActReports(a) == IF a = None THEN "report" ELSE "step"

\* lines 164-165: where play() continues after get_action
AfterAct(a) == IF a = None THEN "assemble" ELSE "step"

\* lines 47-51, 163-165: random mode
RandomAction ==
    /\ pc = "act"
    /\ flags.mode = "random"
    /\ \E a \in (IF is_raw_env THEN SeqToSet(_ACTIONS)
                 ELSE 0 .. (Len(EnvActions) - 1)) :
         /\ action' = Some(a)
         /\ pc' = AfterAct(Some(a))
    /\ out' = NoOut
    /\ UNCHANGED <<flags, pil_installed, error, envVars, obs, steps, episodes,
                   reward, done, gifVars, ttyVars, statVars, shutdown, termios0>>

\* lines 56-73, 163-165: human mode, after the byte was read
Dispatch ==
    /\ pc = "dispatch"
    /\ IF ch = CtrlC
       THEN /\ out' = [kind |-> "abort", code |-> ch]
            /\ action' = None
            /\ pc' = AfterAct(None)
            /\ UNCHANGED corrections
       ELSE IF KeyRejected(is_raw_env, ch)
       THEN /\ out' = [kind |-> "corrective", key |-> ch]
            /\ corrections' = corrections + 1
            /\ pc' = "retry"
            /\ UNCHANGED action
       ELSE /\ out' = NoOut
            /\ action' = Some(KeyAction(is_raw_env, ch))
            /\ pc' = AfterAct(Some(KeyAction(is_raw_env, ch)))
            /\ UNCHANGED corrections
    /\ UNCHANGED <<flags, pil_installed, error, envVars, obs, steps, episodes,
                   reward, done, gifVars, termios, tt, ch, illegal_read,
                   statVars, shutdown, termios0>>

(* ------------------------ play(): step and report ---------------------- *)
\* a variant whose budget test is off by one
RawDoneLate(d, n, budget) == d \/ n > budget

\* line 177: the Raw backend's episode end
RawDone(d, n, budget) == d \/ n >= budget

\* variants: a divisor off by one, and no division at all
IncrMeanOffByOne(mean, x, n) == RAdd(mean, RDiv(RSub(x, mean), n + 1))
IncrMeanNoDivision(mean, x, n) == RAdd(mean, RSub(x, mean))

\* lines 179 and 195: mean += (x - mean) / n
IncrMean(mean, x, n) == RAdd(mean, RDiv(RSub(x, mean), n))

\* a variant that plays one episode too many
RunOverLate(n, ngames) == n > ngames

\* line 202: the run is over
RunOver(n, ngames) == n = ngames

\* lines 181-182: an episode that is not done goes on with the next iteration
AfterStep(d) == IF d THEN "report" ELSE "render"

\* lines 167-182: apply the action, count the step, update done / mean_reward
Step ==
    /\ pc = "step"
    /\ env_steps' = env_steps + 1
    /\ obs' = <<env_resets, env_steps + 1>>
    /\ steps' = steps + 1
    /\ nsteps' = nsteps + 1
    /\ IF is_raw_env
       THEN /\ \E d \in BOOLEAN :
                 /\ step_done' = d
                 /\ done' = RawDone(d, steps + 1, flags.max_steps)
            /\ UNCHANGED <<reward, mean_reward, reward_sum>>
       ELSE \* the adapter was built with max_episode_steps = max_steps: from
            \* that step on it reports done or truncated (which play ignores)
            /\ steps < flags.max_steps + MaxOverrun
            /\ \E r \in Rewards, d \in BOOLEAN, truncated \in BOOLEAN :
                 /\ truncated => env_steps + 1 >= flags.max_steps
                 /\ env_steps + 1 >= flags.max_steps => (d \/ truncated)
                 /\ reward' = r
                 /\ step_done' = d
                 /\ done' = d
                 /\ mean_reward' = IncrMean(mean_reward, Rat(r), steps + 1)
                 /\ reward_sum' = (IF steps = 0 THEN 0 ELSE reward_sum) + r
    /\ pc' = AfterStep(done')
    /\ out' = NoOut
    /\ UNCHANGED <<flags, pil_installed, error, env, env_seeded, env_resets,
                   episodes, action, gifVars, ttyVars, mean_sps, reports,
                   sps_sum, shutdown, termios0>>

\* a variant that counts a finished episode twice
CountEpisodeTwice(n) == n + 2

\* line 194: episodes += 1
CountEpisode(n) == n + 1

\* lines 184-204: the end-of-episode report, the statistics, the next reset
Report ==
    /\ pc = "report"
    /\ \E time_delta \in TimeDeltas :
         LET sps == Norm(<<steps, time_delta>>)
         IN  /\ out' = [kind |-> "episode", episode |-> episodes,
                        steps |-> steps, sps |-> sps,
                        final_reward |-> reward, mean_reward |-> mean_reward,
                        structured |-> ~is_raw_env]
             /\ mean_sps' = IncrMean(mean_sps, sps, CountEpisode(episodes))
             /\ sps_sum' = RAdd(sps_sum, sps)
    /\ reports' = reports + 1
    /\ episodes' = CountEpisode(episodes)
    /\ steps' = 0
    /\ mean_reward' = Rat(0)
    /\ IF RunOver(CountEpisode(episodes), flags.ngames)
       THEN /\ pc' = "assemble"
            /\ UNCHANGED <<env_resets, env_steps>>
       ELSE /\ pc' = "render"
            /\ env_resets' = env_resets + 1
            /\ env_steps' = 0
    /\ UNCHANGED <<flags, pil_installed, error, env, env_seeded, obs, reward,
                   action, done, gifVars, ttyVars, reward_sum, step_done,
                   nsteps, shutdown, termios0>>

(* -------------------------- play(): shutdown --------------------------- *)
\* a variant that counts the episode in progress
SummaryEpisodesPlusOne(n) == n + 1

\* line 226: the episode total of the final summary
SummaryEpisodes(n) == n

\* lines 206-222: order the frames by modification time, write the GIF,
\* remove the temporary directory.  glob lists the directory in an order the
\* file system chooses: creation order or its reverse stand for it.
Assemble ==
    /\ pc = "assemble"
    /\ IF ~flags.save_gif
       THEN /\ pc' = "close"
            /\ out' = NoOut
            /\ UNCHANGED <<error, gifVars, shutdown>>
       ELSE \E reversed \in BOOLEAN :
              LET png_files ==
                    SortByMtime(IF reversed THEN Reverse(frames) ELSE frames)
              IN  IF png_files = <<>>
                  THEN /\ Raise("ValueError")
                       /\ out' = NoOut
                       /\ UNCHANGED <<gifVars, shutdown>>
                  ELSE /\ gif' = Some(png_files)
                       /\ tmpdir' = "removed"
                       /\ frames' = <<>>
                       /\ shutdown' = shutdown \o <<"assemble", "rmtree">>
                       /\ out' = [kind |-> "saved"]
                       /\ pc' = "close"
                       /\ UNCHANGED <<error, fs_res>>
    /\ UNCHANGED <<flags, pil_installed, envVars, obs, steps, episodes, reward,
                   action, done, ttyVars, statVars, termios0>>

\* line 223
Close ==
    /\ pc = "close"
    /\ env' = "closed"
    /\ shutdown' = Append(shutdown, "close")
    /\ pc' = "summary"
    /\ out' = NoOut
    /\ UNCHANGED <<flags, pil_installed, error, env_seeded, env_resets,
                   env_steps, obs, steps, episodes, reward, action, done,
                   gifVars, ttyVars, statVars, termios0>>

\* lines 224-227
Summary ==
    /\ pc = "summary"
    /\ out' = [kind |-> "finished", episodes |-> SummaryEpisodes(episodes),
               mean_sps |-> mean_sps]
    /\ shutdown' = Append(shutdown, "summary")
    /\ pc' = "done"
    /\ UNCHANGED <<flags, pil_installed, error, envVars, obs, steps, episodes,
                   reward, action, done, gifVars, ttyVars, statVars, termios0>>

Next ==
    \/ MakeEnv
    \/ FirstReset
    \/ Render
    \/ Capture
    \/ NoEchoEnter
    \/ ReadByte
    \/ ReadFail
    \/ RandomAction
    \/ Dispatch
    \/ Step
    \/ Report
    \/ Assemble
    \/ Close
    \/ Summary

\* The runs of the default rendering, unseeded configurations from a terminal
\* in cooked mode; PIL may be missing where recording asks for it.
CoreFlags == {f \in Flags : f.seeds = None /\ ~f.no_render}

Init ==
    /\ InitOf(CoreFlags, {"cooked"}, FsResolutions, BOOLEAN)
    /\ ~flags.save_gif => (pil_installed /\ fs_res = 1)

Spec == Init /\ [][Next]_vars

\* The unseeded runs with rendering on or off (--no-render), PIL installed.
InitRender ==
    InitOf({f \in Flags : f.seeds = None}, {"cooked"}, {1}, {TRUE})

SpecRender == InitRender /\ [][Next]_vars

\* The rendering runs without recording, with --seeds given or not.
InitSeed ==
    InitOf({f \in Flags : ~f.no_render /\ ~f.save_gif}, {"cooked"}, {1},
           {TRUE})

SpecSeed == InitSeed /\ [][Next]_vars

\* The runs without recording, from a terminal in either of two modes.
InitTty ==
    InitOf({f \in CoreFlags : ~f.save_gif}, TermModes, {1}, {TRUE})

SpecTty == InitTty /\ [][Next]_vars

(* ------------------------------ properties ----------------------------- *)
\* the control points of the TERMINATED state, and those of the loop
ShutdownPcs == {"assemble", "close", "summary", "done"}
LoopPcs == {"render", "capture", "act", "reading", "dispatch", "retry", "step"}

\* the run left the loop because get_action returned None
Aborted == pc \in ShutdownPcs /\ action = None

\* C1: a run of N episodes that is not aborted resets the adapter exactly N
\* times and prints exactly N end-of-episode reports; once the N-th report is
\* out the run is in its shutdown sequence and no further reset is issued.
C1_ExactlyNResets ==
    /\ reports <= flags.ngames
    /\ env_resets <= flags.ngames
    /\ reports = flags.ngames =>
         (pc \in ShutdownPcs /\ env_resets = flags.ngames)
    /\ (pc \in ShutdownPcs /\ action # None) =>
         (reports = flags.ngames /\ env_resets = flags.ngames)

C1_Witness ==
    /\ pc = "done"
    /\ action # None
    /\ flags.ngames = 2
    /\ reports = 2
    /\ env_resets = 2

\* C2: the abort key read at ACT takes the run straight to TERMINATED: the
\* step that handles it applies no adapter step, prints no report and issues
\* no reset; afterwards the adapter is never stepped or reset and no report
\* is printed, so the reports equal the episodes completed before the abort
\* and the remaining episodes are never attempted.  The loop is left only by
\* that step or by the last episode's report.
C2_AbortStep ==
    (pc = "dispatch" /\ ch = CtrlC) =>
        /\ pc' = "assemble"
        /\ action' = None
        /\ UNCHANGED <<env_steps, env_resets, reports, episodes, steps>>

C2_AfterAbort ==
    Aborted => UNCHANGED <<env_steps, env_resets, reports, episodes>>

C2_OnlyAtAct ==
    (pc \notin ShutdownPcs /\ pc' \in ShutdownPcs) =>
        \/ pc = "dispatch" /\ ch = CtrlC
        \/ pc = "report" /\ episodes' = flags.ngames

C2_AbortInv ==
    Aborted =>
        /\ reports = episodes
        /\ episodes < flags.ngames
        /\ env_resets = episodes + 1

C2_Abort ==
    /\ [][C2_AbortStep /\ C2_AfterAbort /\ C2_OnlyAtAct]_vars
    /\ []C2_AbortInv

\* the abort key arrives during episode 2, after a step of it
C2_Witness ==
    /\ pc = "done"
    /\ action = None
    /\ flags.ngames = 2
    /\ reports = 1
    /\ env_steps >= 1
    /\ env_resets = 2

\* C3: on the Raw backend an episode whose adapter never reports done ends at
\* exactly the step at which the step counter reaches max_steps, and its
\* report shows steps = max_steps; an adapter-reported done ends the episode
\* at that step.
C3_RawBudget ==
    is_raw_env =>
        /\ steps <= flags.max_steps
        /\ pc = "report" => (step_done \/ steps = flags.max_steps)
        /\ (pc \in LoopPcs /\ steps >= 1) =>
             (~step_done /\ steps < flags.max_steps)
        /\ out.kind = "episode" =>
             /\ out.steps <= flags.max_steps
             /\ ~step_done => out.steps = flags.max_steps
             /\ out.steps = env_steps \/ env_steps = 0

C3_Witness ==
    /\ is_raw_env
    /\ flags.max_steps = 2
    /\ out.kind = "episode"
    /\ out.steps = 2
    /\ ~step_done

\* get_action has just returned an action read from the terminal
HumanReturn == flags.mode = "human" /\ pc = "step"

\* C4 as stated: on either backend get_action prints one corrective message
\* per byte read that is no legal action (Structured: not in the declared
\* action list; Raw: not in _ACTIONS) and returns the action of a legal byte.
C4_Original ==
    HumanReturn =>
        /\ corrections = illegal_read
        /\ ch \in LegalKeys
        /\ action = Some(IF is_raw_env THEN ch ELSE Index(EnvActions, ch))

\* C4 as amended: on Structured get_action prints exactly one corrective
\* message per byte that is not in the declared action list and returns the
\* index of the first byte that is; on Raw it returns the first byte that is
\* not control-C as the action, in _ACTIONS or not, and prints no corrective
\* message.  No adapter step or reset happens inside get_action.
C4_ReturnInv ==
    HumanReturn =>
        IF is_raw_env
        THEN /\ corrections = 0
             /\ ch # CtrlC
             /\ action = Some(ch)
        ELSE /\ corrections = illegal_read
             /\ HasIndex(EnvActions, ch)
             /\ action = Some(Index(EnvActions, ch))
             /\ EnvActions[action[1] + 1] = ch

C4_NoStepInside ==
    pc \in {"reading", "dispatch", "retry"} =>
        UNCHANGED <<env_steps, env_resets, steps>>

C4_Amended == []C4_ReturnInv /\ [][C4_NoStepInside]_vars

\* two rejected bytes, then a legal one, on Structured
C4_Witness ==
    /\ HumanReturn
    /\ ~is_raw_env
    /\ corrections = 2
    /\ illegal_read = 2
    /\ action = Some(3)

\* C5: the terminal is in raw mode only while get_action blocks in its
\* single-byte read; in every other state, whether the read returned, raised
\* or was interrupted, the terminal has the settings it had before the run.
C5_TerminalRestored ==
    /\ pc = "reading" => (termios = RawMode /\ tt = termios0)
    /\ pc # "reading" => termios = termios0

\* the read was interrupted while the terminal was in raw mode
C5_Witness ==
    /\ pc = "error"
    /\ error = Some("KeyboardInterrupt")
    /\ termios0 = "cbreak"
    /\ termios = "cbreak"

\* frame a precedes frame b in (episode, step) order
TagLess(a, b) ==
    \/ a.episode < b.episode
    \/ a.episode = b.episode /\ a.step < b.step

\* the frames of a sequence are in strictly increasing (episode, step) order
TagOrdered(fs) ==
    \A i, j \in 1 .. Len(fs) : i < j => TagLess(fs[i], fs[j])

\* C6 as stated: frames are captured in strictly increasing (episode, step)
\* order, and a recorded Structured run that completes its episodes leaves an
\* artifact holding every captured frame exactly once in that order (one
\* frame per step), with the temporary frame store removed.
C6_Original ==
    /\ TagOrdered(frames)
    /\ (gif # None /\ ~Aborted) =>
         /\ TagOrdered(gif[1])
         /\ Len(gif[1]) = nsteps
         /\ tmpdir = "removed"
         /\ frames = <<>>

\* C7: both ways out of the loop run the same shutdown once and in order:
\* with recording the artifact is assembled and the frame store removed,
\* then the adapter is closed, then the summary is printed with the number
\* of end-of-episode reports; a closed adapter is never stepped or reset.
ShutdownSequence ==
    (IF flags.save_gif THEN <<"assemble", "rmtree">> ELSE <<>>)
        \o <<"close", "summary">>

C7_ShutdownInv ==
    /\ pc = "done" =>
         /\ shutdown = ShutdownSequence
         /\ env = "closed"
         /\ out.kind = "finished"
         /\ out.episodes = reports
    /\ env = "closed" => pc \in {"summary", "done"}
    /\ (flags.save_gif /\ pc \in {"close", "summary", "done"}) =>
         (gif # None /\ tmpdir = "removed")
    /\ pc \notin ShutdownPcs => shutdown = <<>>

C7_ClosedIsFinal ==
    env = "closed" => UNCHANGED <<env_steps, env_resets, nsteps, env>>

C7_Shutdown == []C7_ShutdownInv /\ [][C7_ClosedIsFinal]_vars

\* a recorded run aborted in its second episode has shut down
C7_Witness ==
    /\ pc = "done"
    /\ action = None
    /\ flags.save_gif
    /\ reports = 1
    /\ shutdown = <<"assemble", "rmtree", "close", "summary">>

\* C8: on Structured, after each step of an episode mean_reward is the
\* arithmetic mean of that episode's rewards so far, it is 0 when an episode
\* starts, and the report prints the mean of exactly that episode's rewards.
C8_MeanReward ==
    ~is_raw_env =>
        /\ steps = 0 => mean_reward = Rat(0)
        /\ steps >= 1 => mean_reward = Norm(<<reward_sum, steps>>)
        /\ out.kind = "episode" =>
             out.mean_reward = Norm(<<reward_sum, out.steps>>)

\* the second episode's report, with a mean that is no integer
C8_Witness ==
    /\ ~is_raw_env
    /\ out.kind = "episode"
    /\ out.episode = 1
    /\ out.steps = 2
    /\ out.mean_reward = <<1, 2>>

\* C9: mean_sps is the arithmetic mean of the steps-per-second values of the
\* completed episodes; only an end-of-episode report changes it, and each
\* report counts one episode.
C9_MeanSpsInv ==
    /\ reports = episodes
    /\ episodes = 0 => mean_sps = Rat(0)
    /\ episodes >= 1 => mean_sps = RDiv(sps_sum, episodes)
    /\ out.kind = "finished" => out.mean_sps = mean_sps

C9_OncePerEpisode ==
    /\ pc # "report" => UNCHANGED <<mean_sps, episodes>>
    /\ pc = "report" => episodes' = episodes + 1

C9_MeanSps == []C9_MeanSpsInv /\ [][C9_OncePerEpisode]_vars

\* two episodes completed, with a mean that is no integer
C9_Witness ==
    /\ pc = "done"
    /\ episodes = 2
    /\ mean_sps = <<5, 4>>

\* C10 as stated: with recording requested and PIL missing the run fails
\* with the configuration error before any simulation begins, on either
\* backend: no adapter is built, nothing is reset or stepped and no temporary
\* frame store is created.
C10_Original ==
    (flags.save_gif /\ ~pil_installed) =>
        /\ pc \in {"make", "error"}
        /\ pc = "error" => error = Some("ModuleNotFoundError")
        /\ env = "none"
        /\ env_resets = 0
        /\ nsteps = 0
        /\ tmpdir = "none"

\* the iteration that opens an episode: nothing was stepped in it yet
EpisodeStart == pc \in {"render", "capture", "act"} /\ steps = 0

\* C11 as stated: at every episode boundary the whole episode state is back
\* at its initial value before the next render or act: the step counter is
\* 0, the last action is none, the last reward is 0 and the mean reward is 0,
\* so what is shown as previous reward / previous action at step 0 of a later
\* episode is never left over from the episode before.
C11_Original ==
    /\ EpisodeStart =>
          /\ action = None
          /\ reward = 0
          /\ mean_reward = Rat(0)
    /\ (pc = "capture" /\ steps = 0 /\ out.kind = "render") =>
          /\ out.action = None
          /\ ~is_raw_env => out.reward = 0

\* C12 as stated: in every episode, the later ones included, the observation
\* held at step 0, which is what is displayed on Raw and what is captured as
\* frame (episode, 0), is the one the reset of that episode returned, never
\* the last observation of the episode before.  (Episode k, counted from 0,
\* follows reset number k + 1.)
C12_Original ==
    /\ (EpisodeStart /\ env = "open") => obs = <<env_resets, 0>>
    /\ (pc = "capture" /\ steps = 0 /\ out.kind = "render" /\ is_raw_env) =>
          out.obs = <<env_resets, 0>>
    /\ \A i \in 1 .. Len(frames) :
          frames[i].step = 0 => frames[i].image = <<frames[i].episode + 1, 0>>

\* C13 as stated: on either backend the step counter of an episode never
\* exceeds max_steps, also when the Structured adapter, built with
\* max_episode_steps = max_steps, signals the exhausted budget through its
\* truncated flag.
C13_Original == steps <= flags.max_steps

\* the number of frames captured so far: they are in the frame store until
\* the assembly moves them into the artifact
Captured == IF gif = None THEN Len(frames) ELSE Len(gif[1])

\* C14 as stated: with recording enabled, at termination, on every
\* termination path (episodes completed or abort at any point), the number of
\* captured frames equals the total number of steps applied.
C14_Original ==
    (flags.save_gif /\ pc \in ShutdownPcs) => Captured = nsteps

\* C14, amended: with recording enabled one frame is captured per loop
\* iteration, before the action is fetched: between capture and the end of
\* the step the frames are one ahead of the steps, and at termination their
\* number is the number of steps applied when the episodes were completed,
\* and that number plus one when the run was aborted.
C14_Amended ==
    (flags.save_gif /\ tmpdir # "none") =>
        /\ pc \in {"render", "capture", "report"} => Captured = nsteps
        /\ pc \in {"act", "reading", "dispatch", "retry", "step"} =>
              Captured = nsteps + 1
        /\ pc \in ShutdownPcs =>
              Captured = nsteps + (IF Aborted THEN 1 ELSE 0)

\* a recorded run aborted after two steps: three frames
C14_Witness ==
    /\ flags.save_gif
    /\ pc = "done"
    /\ Aborted
    /\ nsteps = 2
    /\ Captured = 3

C15_RenderInv ==
    /\ flags.no_render => out.kind # "render"
    /\ (pc = "capture" /\ ~flags.no_render) => out.kind = "render"

C15_CaptureStep ==
    /\ (pc = "capture" /\ pc' = "act") =>
          Captured' = Captured + (IF flags.save_gif THEN 1 ELSE 0)
    /\ pc # "capture" => Captured' = Captured

C16_Original ==
    (is_raw_env /\ flags.mode = "random") =>
        /\ nsteps <= flags.ngames * flags.max_steps
        /\ pc = "done" => episodes = flags.ngames
        /\ pc # "done" => ENABLED Next

\* C17: the episode counter stays between 0 and ngames, never decreases, and
\* grows by exactly 1 at each end-of-episode report and at no other time;
\* the step counter is 0 at every reset, the first one and the one that
\* follows a report; once the episode counter equals ngames the loop is left:
\* no action is fetched and no step applied any more.
C17_EpisodesInv ==
    /\ episodes \in 0 .. flags.ngames
    /\ pc = "reset" => steps = 0
    /\ episodes = flags.ngames => pc \in ShutdownPcs

C17_EpisodesStep ==
    /\ episodes' >= episodes
    /\ pc # "report" => episodes' = episodes
    /\ pc = "report" =>
          /\ episodes' = episodes + 1
          /\ reports' = reports + 1
          /\ steps' = 0
    /\ env_resets' # env_resets => steps' = 0
    /\ episodes = flags.ngames =>
          /\ nsteps' = nsteps
          /\ env_resets' = env_resets
          /\ pc' \in ShutdownPcs

C17_Episodes == []C17_EpisodesInv /\ [][C17_EpisodesStep]_vars

\* a run of two episodes that completed both
C17_Witness ==
    /\ flags.ngames = 2
    /\ episodes = 2
    /\ reports = 2
    /\ pc = "done"
    /\ ~Aborted

\* C18: on Structured with a seed configured the adapter is seeded exactly
\* once, when it has been built and before the first reset, and no later
\* reset seeds it again; with no seed configured it is never seeded.
C18_SeedInv ==
    /\ flags.seeds = None => env_seeded = 0
    /\ (~is_raw_env /\ flags.seeds # None) =>
          /\ env = "none" => env_seeded = 0
          /\ env # "none" => env_seeded = 1
          /\ env_resets >= 1 => env_seeded = 1

C18_SeedStep ==
    env_seeded' # env_seeded =>
        /\ pc = "make"
        /\ env' = "open"
        /\ env_resets' = 0

C18_Seed == []C18_SeedInv /\ [][C18_SeedStep]_vars

\* a seeded Structured run in its second episode: two resets, one seeding
C18_Witness ==
    /\ ~is_raw_env
    /\ flags.seeds = Some(7)
    /\ env_resets = 2
    /\ nsteps >= 2
    /\ env_seeded = 1

\* C19: with recording enabled the frame store holds at least one frame
\* whenever the assembly is reached, on every way out of the loop, an abort
\* at the very first action included; the assembly never unpacks an empty
\* frame list (ValueError at line 211).
C19_FramesAtAssembly ==
    /\ (flags.save_gif /\ pc = "assemble") => Len(frames) >= 1
    /\ error # Some("ValueError")
    /\ gif # None => Len(gif[1]) >= 1

\* the first action of a recorded run is the abort: one frame, no step
C19_Witness ==
    /\ flags.save_gif
    /\ pc = "assemble"
    /\ Aborted
    /\ nsteps = 0
    /\ Len(frames) = 1

====
